---- MODULE Spec2Model ----
(***************************************************************************)
(* Model of the domain entities of educational-reinforcement-platform      *)
(* (package internal/domain/model): the Question aggregate with its        *)
(* Options and Difficulty, and the peripheral entities Option, Subject,    *)
(* User and Performance.                                                   *)
(*                                                                         *)
(* Go strings are sequences of one-character strings, so that              *)
(* strings.TrimSpace, strings.ToLower and len are computed, not assumed.   *)
(* A pointer is a sequence of length 0 (nil) or 1.  An error is the name   *)
(* of the package-level error value, NoError for a nil error.              *)
(* time.Now() is the logical clock now, which every call advances.         *)
(***************************************************************************)
EXTENDS Integers, Sequences, FiniteSets, TLC

VARIABLES
    q,            \* *Question held by the caller (nil before NewQuestion succeeds)
    option,       \* a stand-alone Option entity
    subject,      \* a Subject entity
    user,         \* a User entity
    performance,  \* a Performance entity
    now,          \* the clock: the value the next time.Now() returns
    last,         \* the last call: operation, argument, result, state before it
    pc,           \* position inside a mutator call (step-wise specification)
    frame         \* the locals of the mutator call in progress

vars == <<q, option, subject, user, performance, now, last, pc, frame>>

-----------------------------------------------------------------------------
(* Bounds of the model *)

\* number of calls in a behaviour (the clock stops there)
MaxTime == 3

\* longest options list a caller passes to NewQuestion / UpdateOptions
MaxLen == 3

\* how far below VeryEasy and above VeryHard the integer inputs reach
MaxDelta == 3

-----------------------------------------------------------------------------
(* Pointers and errors *)

NilPtr == <<>>

Ptr(x) == <<x>>

Deref(p) == p[1]

NoError == "nil"

ErrQuestionIDEmpty == "ErrQuestionIDEmpty"

ErrEmptyQuestionContent == "ErrEmptyQuestionContent"

ErrSubjectIDEmpty == "ErrSubjectIDEmpty"

ErrEmptyOptionContent == "ErrEmptyOptionContent"

ErrQuantityOptions == "ErrQuantityOptions"

ErrInvalidCorrectOptions == "ErrInvalidCorrectOptions"

ErrAddOptionExceedsLimit == "ErrAddOptionExceedsLimit"

ErrRemoveOptionBelowLimit == "ErrRemoveOptionBelowLimit"

ErrOptionNotFound == "ErrOptionNotFound"

ErrOptionIDEmpty == "ErrOptionIDEmpty"

ErrChangeDifficulty == "ErrChangeDifficulty"

ErrInvalidDifficulty == "ErrInvalidDifficulty"

\* the error a constructor returns: a *ValidationError holding ve.Errors
ErrValidation == "ValidationError"

-----------------------------------------------------------------------------
(* Strings *)

WhiteSpace == {" ", "\t", "\n", "\r"}

RECURSIVE TrimLeft(_)
TrimLeft(s) ==
    IF s # <<>> /\ Head(s) \in WhiteSpace THEN TrimLeft(Tail(s)) ELSE s

RECURSIVE TrimRight(_)
TrimRight(s) ==
    IF s # <<>> /\ s[Len(s)] \in WhiteSpace
    THEN TrimRight(SubSeq(s, 1, Len(s) - 1))
    ELSE s

\* strings.TrimSpace
TrimSpace(s) == TrimRight(TrimLeft(s))

-----------------------------------------------------------------------------
(* Difficulty *)

VeryEasy == 2

Easy == 3

Medium == 4

Hard == 5

VeryHard == 6

\* ValidateDifficulty with both comparisons made inclusive
ValidateDifficulty_Inclusive(difficulty) ==
    IF difficulty <= VeryEasy \/ difficulty >= VeryHard
    THEN ErrInvalidDifficulty
    ELSE NoError

\* ValidateDifficulty: the error it returns
ValidateDifficulty(difficulty) ==
    IF difficulty < VeryEasy \/ difficulty > VeryHard
    THEN ErrInvalidDifficulty
    ELSE NoError

\* ValidateDifficulty: the pair it returns, Difficulty(0) beside an error
ValidateDifficultyResult(difficulty) ==
    IF ValidateDifficulty(difficulty) # NoError
    THEN [d |-> 0, err |-> ValidateDifficulty(difficulty)]
    ELSE [d |-> difficulty, err |-> NoError]

\* Difficulty.ToInt: int(d), both types being the machine integer
ToInt(d) == d

\* FromInt: Difficulty(value), then ValidateDifficulty
FromInt(value) == ValidateDifficultyResult(value)

LabelVeryEasy == <<"V", "e", "r", "y", " ", "E", "a", "s", "y">>

LabelEasy == <<"E", "a", "s", "y">>

LabelMedium == <<"M", "e", "d", "i", "u", "m">>

LabelHard == <<"H", "a", "r", "d">>

LabelVeryHard == <<"V", "e", "r", "y", " ", "H", "a", "r", "d">>

LabelUnknown == <<"U", "n", "k", "n", "o", "w", "n">>

\* Difficulty.String
Difficulty_String(d) ==
    CASE d = VeryEasy -> LabelVeryEasy
      [] d = Easy -> LabelEasy
      [] d = Medium -> LabelMedium
      [] d = Hard -> LabelHard
      [] d = VeryHard -> LabelVeryHard
      [] OTHER -> LabelUnknown

\* the error of encoding/json on data that is not a JSON string
ErrJSON == "json.UnmarshalTypeError"

Quote == "\""

JSONNull == <<"n", "u", "l", "l">>

\* json.Marshal of a string that needs no escaping: the string in quotes
json_Marshal(str) == <<Quote>> \o str \o <<Quote>>

\* json.Unmarshal(data, &difficultyStr): a quoted string without escapes is
\* decoded, null leaves the empty string, anything else is an error
json_Unmarshal(data) ==
    IF data = JSONNull THEN [str |-> <<>>, err |-> NoError]
    ELSE IF /\ Len(data) >= 2
            /\ data[1] = Quote
            /\ data[Len(data)] = Quote
            /\ \A i \in 2 .. (Len(data) - 1) : data[i] \notin {Quote, "\\"}
         THEN [str |-> SubSeq(data, 2, Len(data) - 1), err |-> NoError]
         ELSE [str |-> <<>>, err |-> ErrJSON]

\* (*Difficulty).MarshalJSON
Difficulty_MarshalJSON(d) == json_Marshal(Difficulty_String(d))

\* the switch of UnmarshalJSON with a default case that picks Medium
unmarshalSwitch_DefaultMedium(difficultyStr) ==
    CASE difficultyStr = LabelVeryEasy -> [d |-> VeryEasy, err |-> NoError]
      [] difficultyStr = LabelEasy -> [d |-> Easy, err |-> NoError]
      [] difficultyStr = LabelMedium -> [d |-> Medium, err |-> NoError]
      [] difficultyStr = LabelHard -> [d |-> Hard, err |-> NoError]
      [] difficultyStr = LabelVeryHard -> [d |-> VeryHard, err |-> NoError]
      [] OTHER -> [d |-> Medium, err |-> NoError]

\* the switch of UnmarshalJSON: the level of a label, or the error
unmarshalSwitch(difficultyStr) ==
    CASE difficultyStr = LabelVeryEasy -> [d |-> VeryEasy, err |-> NoError]
      [] difficultyStr = LabelEasy -> [d |-> Easy, err |-> NoError]
      [] difficultyStr = LabelMedium -> [d |-> Medium, err |-> NoError]
      [] difficultyStr = LabelHard -> [d |-> Hard, err |-> NoError]
      [] difficultyStr = LabelVeryHard -> [d |-> VeryHard, err |-> NoError]
      [] OTHER -> [d |-> 0, err |-> ErrInvalidDifficulty]

\* (*Difficulty).UnmarshalJSON on a target holding d: the target afterwards
\* and the error
Difficulty_UnmarshalJSON(d, data) ==
    IF json_Unmarshal(data).err # NoError
    THEN [d |-> d, err |-> json_Unmarshal(data).err]
    ELSE IF unmarshalSwitch(json_Unmarshal(data).str).err # NoError
         THEN [d |-> d, err |-> ErrInvalidDifficulty]
         ELSE [d |-> unmarshalSwitch(json_Unmarshal(data).str).d,
               err |-> NoError]

-----------------------------------------------------------------------------
(* ValidationError *)

\* &ValidationError{}
NewValidationError == [Errors |-> <<>>]

\* Add without its nil check
Add_KeepsNil(ve, err) == [ve EXCEPT !.Errors = Append(@, err)]

\* (*ValidationError).Add
Add(ve, err) ==
    IF err # NoError THEN [ve EXCEPT !.Errors = Append(@, err)] ELSE ve

\* (*ValidationError).HasErrors
HasErrors(ve) == Len(ve.Errors) > 0

\* (*ValidationError).Unwrap
Unwrap(ve) == ve.Errors

-----------------------------------------------------------------------------
(* Question *)

validateQuestionContent(content) ==
    IF TrimSpace(content) = <<>> THEN ErrEmptyQuestionContent ELSE NoError

\* the loop of validateOptions: the number of options with IsCorrect
RECURSIVE correctCount(_)
correctCount(options) ==
    IF options = <<>> THEN 0
    ELSE (IF Head(options).IsCorrect THEN 1 ELSE 0) + correctCount(Tail(options))

\* a faulty validateOptions that judges the correct options before the count
validateOptions_CorrectnessFirst(options, difficulty) ==
    IF correctCount(options) # 1
    THEN ErrInvalidCorrectOptions
    ELSE IF Len(options) < VeryEasy \/ Len(options) > difficulty
         THEN ErrQuantityOptions
         ELSE NoError

\* a faulty validateOptions that accepts any list with a correct option
validateOptions_AtLeastOne(options, difficulty) ==
    IF Len(options) < VeryEasy \/ Len(options) > difficulty
    THEN ErrQuantityOptions
    ELSE IF correctCount(options) < 1
         THEN ErrInvalidCorrectOptions
         ELSE NoError

validateOptions(options, difficulty) ==
    IF Len(options) < VeryEasy \/ Len(options) > difficulty
    THEN ErrQuantityOptions
    ELSE IF correctCount(options) # 1
         THEN ErrInvalidCorrectOptions
         ELSE NoError

\* Validate that returns at the first violation, as the earlier NewQuestion did
Question_Validate_ShortCircuit(qv) ==
    IF TrimSpace(qv.ID) = <<>> THEN Add(NewValidationError, ErrQuestionIDEmpty)
    ELSE IF TrimSpace(qv.SubjectID) = <<>>
         THEN Add(NewValidationError, ErrSubjectIDEmpty)
         ELSE IF validateQuestionContent(qv.Content) # NoError
              THEN Add(NewValidationError, ErrEmptyQuestionContent)
              ELSE IF ValidateDifficulty(qv.Difficulty) # NoError
                   THEN Add(NewValidationError, ErrInvalidDifficulty)
                   ELSE Add(NewValidationError,
                            validateOptions(qv.Options, qv.Difficulty))

\* (*Question).Validate: the ValidationError it fills
Question_Validate(qv) ==
    LET ve0 == NewValidationError
        ve1 == IF TrimSpace(qv.ID) = <<>> THEN Add(ve0, ErrQuestionIDEmpty) ELSE ve0
        ve2 == IF TrimSpace(qv.SubjectID) = <<>> THEN Add(ve1, ErrSubjectIDEmpty) ELSE ve1
        ve3 == Add(ve2, validateQuestionContent(qv.Content))
        ve4 == Add(ve3, ValidateDifficulty(qv.Difficulty))
        ve5 == Add(ve4, validateOptions(qv.Options, qv.Difficulty))
    IN  ve5

\* NewQuestion at time t: the pointer, the error and the errors collected
NewQuestion(id, subjectID, content, difficulty, options, t) ==
    LET question == [ID |-> id, SubjectID |-> subjectID, Content |-> content,
                     Options |-> options, Difficulty |-> difficulty,
                     CreatedAt |-> t, UpdatedAt |-> t]
        ve == Question_Validate(question)
    IN  IF HasErrors(ve)
        THEN [q |-> NilPtr, err |-> ErrValidation, ve |-> ve.Errors]
        ELSE [q |-> Ptr(question), err |-> NoError, ve |-> <<>>]

\* The mutators: the Question after the call at time t, and the error returned.

Question_UpdateContent(qv, newContent, t) ==
    IF validateQuestionContent(newContent) # NoError
    THEN [q |-> qv, err |-> validateQuestionContent(newContent)]
    ELSE [q |-> [qv EXCEPT !.Content = newContent, !.UpdatedAt = t],
          err |-> NoError]

\* a faulty UpdateDifficulty that cuts the options down to the new level
Question_UpdateDifficulty_Trims(qv, newDifficulty, t) ==
    IF ValidateDifficulty(newDifficulty) # NoError
    THEN [q |-> qv, err |-> ValidateDifficulty(newDifficulty)]
    ELSE [q |-> [qv EXCEPT
                    !.Difficulty = newDifficulty,
                    !.Options = IF Len(@) > newDifficulty
                                THEN SubSeq(@, 1, newDifficulty) ELSE @,
                    !.UpdatedAt = t],
          err |-> NoError]

\* a faulty UpdateDifficulty that also refuses a level equal to the option count
Question_UpdateDifficulty_Strict(qv, newDifficulty, t) ==
    IF ValidateDifficulty(newDifficulty) # NoError
    THEN [q |-> qv, err |-> ValidateDifficulty(newDifficulty)]
    ELSE IF Len(qv.Options) >= newDifficulty
         THEN [q |-> qv, err |-> ErrChangeDifficulty]
         ELSE [q |-> [qv EXCEPT !.Difficulty = newDifficulty, !.UpdatedAt = t],
               err |-> NoError]

Question_UpdateDifficulty(qv, newDifficulty, t) ==
    IF ValidateDifficulty(newDifficulty) # NoError
    THEN [q |-> qv, err |-> ValidateDifficulty(newDifficulty)]
    ELSE IF Len(qv.Options) > newDifficulty
         THEN [q |-> qv, err |-> ErrChangeDifficulty]
         ELSE [q |-> [qv EXCEPT !.Difficulty = newDifficulty, !.UpdatedAt = t],
               err |-> NoError]

\* a faulty UpdateOptions that assigns the list before validating it
Question_UpdateOptions_CommitFirst(qv, newOptions, t) ==
    IF validateOptions(newOptions, qv.Difficulty) # NoError
    THEN [q |-> [qv EXCEPT !.Options = newOptions],
          err |-> validateOptions(newOptions, qv.Difficulty)]
    ELSE [q |-> [qv EXCEPT !.Options = newOptions, !.UpdatedAt = t],
          err |-> NoError]

Question_UpdateOptions(qv, newOptions, t) ==
    IF validateOptions(newOptions, qv.Difficulty) # NoError
    THEN [q |-> qv, err |-> validateOptions(newOptions, qv.Difficulty)]
    ELSE [q |-> [qv EXCEPT !.Options = newOptions, !.UpdatedAt = t],
          err |-> NoError]

\* a faulty AddOption that puts the new option first
Question_AddOption_Prepend(qv, opt, t) ==
    IF Len(qv.Options) >= qv.Difficulty
    THEN [q |-> qv, err |-> ErrAddOptionExceedsLimit]
    ELSE LET newOptions == <<opt>> \o qv.Options
         IN  IF validateOptions(newOptions, qv.Difficulty) # NoError
             THEN [q |-> qv, err |-> validateOptions(newOptions, qv.Difficulty)]
             ELSE [q |-> [qv EXCEPT !.Options = newOptions, !.UpdatedAt = t],
                   err |-> NoError]

\* a faulty AddOption whose ceiling check is off by one
Question_AddOption_OffByOne(qv, opt, t) ==
    IF Len(qv.Options) > qv.Difficulty
    THEN [q |-> qv, err |-> ErrAddOptionExceedsLimit]
    ELSE LET newOptions == Append(qv.Options, opt)
         IN  IF validateOptions(newOptions, qv.Difficulty) # NoError
             THEN [q |-> qv, err |-> validateOptions(newOptions, qv.Difficulty)]
             ELSE [q |-> [qv EXCEPT !.Options = newOptions, !.UpdatedAt = t],
                   err |-> NoError]

Question_AddOption(qv, opt, t) ==
    IF Len(qv.Options) >= qv.Difficulty
    THEN [q |-> qv, err |-> ErrAddOptionExceedsLimit]
    ELSE LET newOptions == Append(qv.Options, opt)
         IN  IF validateOptions(newOptions, qv.Difficulty) # NoError
             THEN [q |-> qv, err |-> validateOptions(newOptions, qv.Difficulty)]
             ELSE [q |-> [qv EXCEPT !.Options = newOptions, !.UpdatedAt = t],
                   err |-> NoError]

\* the loop of RemoveOption: the options whose ID is not optionID, in order
RECURSIVE removeLoop(_, _)
removeLoop(options, optionID) ==
    IF options = <<>> THEN <<>>
    ELSE IF Head(options).ID = optionID
         THEN removeLoop(Tail(options), optionID)
         ELSE <<Head(options)>> \o removeLoop(Tail(options), optionID)

\* a faulty RemoveOption whose floor check is off by one
Question_RemoveOption_OffByOne(qv, optionID, t) ==
    IF Len(qv.Options) < VeryEasy
    THEN [q |-> qv, err |-> ErrRemoveOptionBelowLimit]
    ELSE LET newOptions == removeLoop(qv.Options, optionID)
             found == \E i \in DOMAIN qv.Options : qv.Options[i].ID = optionID
         IN  IF ~found
             THEN [q |-> qv, err |-> ErrOptionNotFound]
             ELSE IF validateOptions(newOptions, qv.Difficulty) # NoError
                  THEN [q |-> qv, err |-> validateOptions(newOptions, qv.Difficulty)]
                  ELSE [q |-> [qv EXCEPT !.Options = newOptions, !.UpdatedAt = t],
                        err |-> NoError]

Question_RemoveOption(qv, optionID, t) ==
    IF Len(qv.Options) <= VeryEasy
    THEN [q |-> qv, err |-> ErrRemoveOptionBelowLimit]
    ELSE LET newOptions == removeLoop(qv.Options, optionID)
             found == \E i \in DOMAIN qv.Options : qv.Options[i].ID = optionID
         IN  IF ~found
             THEN [q |-> qv, err |-> ErrOptionNotFound]
             ELSE IF validateOptions(newOptions, qv.Difficulty) # NoError
                  THEN [q |-> qv, err |-> validateOptions(newOptions, qv.Difficulty)]
                  ELSE [q |-> [qv EXCEPT !.Options = newOptions, !.UpdatedAt = t],
                        err |-> NoError]

\* one iteration of the loop of SetCorrectOption: q.Options[i] is written in place
setCorrectStep(opt, optionID, t) ==
    IF opt.ID = optionID
    THEN [opt EXCEPT !.IsCorrect = TRUE, !.UpdatedAt = t]
    ELSE [opt EXCEPT !.IsCorrect = FALSE, !.UpdatedAt = t]

Question_SetCorrectOption(qv, optionID, t) ==
    LET flipped == [i \in DOMAIN qv.Options |->
                        setCorrectStep(qv.Options[i], optionID, t)]
        found == \E i \in DOMAIN qv.Options : qv.Options[i].ID = optionID
        written == [qv EXCEPT !.Options = flipped]
    IN  IF ~found
        THEN [q |-> written, err |-> ErrOptionNotFound]
        ELSE IF validateOptions(flipped, qv.Difficulty) # NoError
             THEN [q |-> written, err |-> validateOptions(flipped, qv.Difficulty)]
             ELSE [q |-> [written EXCEPT !.UpdatedAt = t], err |-> NoError]

-----------------------------------------------------------------------------
(* Option *)

validateOptionContent(content) ==
    IF TrimSpace(content) = <<>> THEN ErrEmptyOptionContent ELSE NoError

\* Validate that stops at the first blank field
Option_Validate_FailFast(o) ==
    IF TrimSpace(o.ID) = <<>> THEN Add(NewValidationError, ErrOptionIDEmpty)
    ELSE IF TrimSpace(o.QuestionID) = <<>>
         THEN Add(NewValidationError, ErrQuestionIDEmpty)
         ELSE Add(NewValidationError, validateOptionContent(o.Content))

\* (*Option).Validate: the ValidationError it fills
Option_Validate(o) ==
    LET ve0 == NewValidationError
        ve1 == IF TrimSpace(o.ID) = <<>> THEN Add(ve0, ErrOptionIDEmpty) ELSE ve0
        ve2 == IF TrimSpace(o.QuestionID) = <<>> THEN Add(ve1, ErrQuestionIDEmpty) ELSE ve1
        ve3 == IF validateOptionContent(o.Content) # NoError
               THEN Add(ve2, ErrEmptyOptionContent) ELSE ve2
    IN  ve3

NewOption(id, questionID, content, isCorrect, t) ==
    LET o == [ID |-> id, QuestionID |-> questionID, Content |-> content,
              IsCorrect |-> isCorrect, CreatedAt |-> t, UpdatedAt |-> t]
        ve == Option_Validate(o)
    IN  IF HasErrors(ve)
        THEN [o |-> NilPtr, err |-> ErrValidation, ve |-> ve.Errors]
        ELSE [o |-> Ptr(o), err |-> NoError, ve |-> <<>>]

Option_UpdateContent(o, newContent, t) ==
    IF validateOptionContent(newContent) # NoError
    THEN [o |-> o, err |-> validateOptionContent(newContent)]
    ELSE [o |-> [o EXCEPT !.Content = newContent, !.UpdatedAt = t],
          err |-> NoError]

-----------------------------------------------------------------------------
(* Subject *)

ErrInvalidSubjectName == "ErrInvalidSubjectName"

validateSubjectName(name) ==
    IF Len(TrimSpace(name)) < 3 THEN ErrInvalidSubjectName ELSE NoError

Subject_Validate(s) ==
    LET ve0 == NewValidationError
        ve1 == IF TrimSpace(s.ID) = <<>> THEN Add(ve0, ErrSubjectIDEmpty) ELSE ve0
        ve2 == Add(ve1, validateSubjectName(s.Name))
    IN  ve2

NewSubject(id, name, t) ==
    LET s == [ID |-> id, Name |-> name, CreatedAt |-> t, UpdatedAt |-> t]
        ve == Subject_Validate(s)
    IN  IF HasErrors(ve)
        THEN [s |-> NilPtr, err |-> ErrValidation, ve |-> ve.Errors]
        ELSE [s |-> Ptr(s), err |-> NoError, ve |-> <<>>]

Subject_UpdateName(s, newName, t) ==
    IF validateSubjectName(newName) # NoError
    THEN [s |-> s, err |-> validateSubjectName(newName)]
    ELSE [s |-> [s EXCEPT !.Name = newName, !.UpdatedAt = t], err |-> NoError]

-----------------------------------------------------------------------------
(* User *)

ErrInvalidName == "ErrInvalidName"

ErrInvalidRole == "ErrInvalidRole"

ErrEmptyRole == "ErrEmptyRole"

ErrInvalidEmail == "ErrInvalidEmail"

ErrEmptyPassword == "ErrEmptyPassword"

ErrEmptyEmail == "ErrEmptyEmail"

ErrUserIDEmpty == "ErrUserIDEmpty"

RoleAdmin == "ADMIN"

RoleUser == "USER"

StatusActive == "ACTIVE"

StatusInactive == "INACTIVE"

LowerLetters ==
    <<"a", "b", "c", "d", "e", "f", "g", "h", "i", "j", "k", "l", "m",
      "n", "o", "p", "q", "r", "s", "t", "u", "v", "w", "x", "y", "z">>

UpperLetters ==
    <<"A", "B", "C", "D", "E", "F", "G", "H", "I", "J", "K", "L", "M",
      "N", "O", "P", "Q", "R", "S", "T", "U", "V", "W", "X", "Y", "Z">>

Range(f) == {f[i] : i \in DOMAIN f}

Letters == Range(LowerLetters) \cup Range(UpperLetters)

Digits == {"0", "1", "2", "3", "4", "5", "6", "7", "8", "9"}

\* strings.ToLower
ToLower(s) ==
    [i \in DOMAIN s |->
        IF s[i] \in Range(UpperLetters)
        THEN LowerLetters[CHOOSE k \in DOMAIN UpperLetters : UpperLetters[k] = s[i]]
        ELSE s[i]]

\* emailRegex.MatchString:  ^[a-zA-Z0-9._%+-]+@[a-zA-Z0-9.-]+\.[a-zA-Z]{2,}$
emailRegexMatch(s) ==
    \E i, j \in DOMAIN s :
        /\ 1 < i /\ i + 1 < j /\ j + 2 <= Len(s)
        /\ s[i] = "@" /\ s[j] = "."
        /\ \A k \in 1 .. (i - 1) : s[k] \in Letters \cup Digits \cup {".", "_", "%", "+", "-"}
        /\ \A k \in (i + 1) .. (j - 1) : s[k] \in Letters \cup Digits \cup {".", "-"}
        /\ \A k \in (j + 1) .. Len(s) : s[k] \in Letters

validateUserName(name) ==
    IF Len(TrimSpace(name)) < 3 THEN ErrInvalidName ELSE NoError

validateEmail(email) ==
    LET e == ToLower(TrimSpace(email))
    IN  IF e = <<>> THEN ErrEmptyEmail
        ELSE IF ~emailRegexMatch(e) THEN ErrInvalidEmail
        ELSE NoError

validateRole(role) ==
    IF role \in {RoleAdmin, RoleUser} THEN NoError
    ELSE IF role = "" THEN ErrEmptyRole
    ELSE ErrInvalidRole

User_Validate(u) ==
    LET ve0 == NewValidationError
        ve1 == IF TrimSpace(u.ID) = <<>> THEN Add(ve0, ErrUserIDEmpty) ELSE ve0
        ve2 == Add(ve1, validateUserName(u.Name))
        ve3 == Add(ve2, validateEmail(u.Email))
        ve4 == Add(ve3, validateRole(u.Role))
        ve5 == Add(ve4, ValidateDifficulty(u.Difficulty))
        ve6 == IF TrimSpace(u.PasswordHash) = <<>> THEN Add(ve5, ErrEmptyPassword) ELSE ve5
    IN  ve6

NewUser(id, name, email, passwordHash, role, difficulty, t) ==
    LET u == [ID |-> id, Name |-> name, Email |-> email,
              PasswordHash |-> passwordHash, Role |-> role,
              Difficulty |-> difficulty, Status |-> StatusActive,
              CreatedAt |-> t, UpdatedAt |-> t]
        ve == User_Validate(u)
    IN  IF HasErrors(ve)
        THEN [u |-> NilPtr, err |-> ErrValidation, ve |-> ve.Errors]
        ELSE [u |-> Ptr(u), err |-> NoError, ve |-> <<>>]

User_UpdateName(u, newName, t) ==
    IF validateUserName(newName) # NoError
    THEN [u |-> u, err |-> validateUserName(newName)]
    ELSE [u |-> [u EXCEPT !.Name = TrimSpace(newName), !.UpdatedAt = t],
          err |-> NoError]

User_UpdateEmail(u, newEmail, t) ==
    IF validateEmail(newEmail) # NoError
    THEN [u |-> u, err |-> validateEmail(newEmail)]
    ELSE [u |-> [u EXCEPT !.Email = ToLower(TrimSpace(newEmail)), !.UpdatedAt = t],
          err |-> NoError]

User_UpdateRole(u, role, t) ==
    IF validateRole(role) # NoError
    THEN [u |-> u, err |-> validateRole(role)]
    ELSE [u |-> [u EXCEPT !.Role = role, !.UpdatedAt = t], err |-> NoError]

User_UpdateDifficulty(u, difficulty, t) ==
    IF ValidateDifficulty(difficulty) # NoError
    THEN [u |-> u, err |-> ValidateDifficulty(difficulty)]
    ELSE [u |-> [u EXCEPT !.Difficulty = difficulty, !.UpdatedAt = t],
          err |-> NoError]

\* a faulty Activate that switches the status over
User_Activate_Toggles(u, t) ==
    [u EXCEPT !.Status = IF @ = StatusActive THEN StatusInactive ELSE StatusActive,
              !.UpdatedAt = t]

User_Activate(u, t) == [u EXCEPT !.Status = StatusActive, !.UpdatedAt = t]

User_Deactivate(u, t) == [u EXCEPT !.Status = StatusInactive, !.UpdatedAt = t]

IsActive(u) == u.Status = StatusActive

IsInactive(u) == u.Status = StatusInactive

-----------------------------------------------------------------------------
(* Performance *)

ErrPerformanceIDEmpty == "ErrPerformanceIDEmpty"

ErrInvalidPeriod == "ErrInvalidPeriod"

ErrInvalidCounter == "ErrInvalidCounter"

PeriodDaily == "daily"

PeriodWeekly == "weekly"

PeriodMonthly == "monthly"

PeriodYearly == "yearly"

validatePeriod(period) ==
    IF period \in {PeriodDaily, PeriodWeekly, PeriodMonthly, PeriodYearly}
    THEN NoError
    ELSE ErrInvalidPeriod

Performance_Validate(p) ==
    LET ve0 == NewValidationError
        ve1 == IF TrimSpace(p.ID) = <<>> THEN Add(ve0, ErrPerformanceIDEmpty) ELSE ve0
        ve2 == IF TrimSpace(p.UserID) = <<>> THEN Add(ve1, ErrUserIDEmpty) ELSE ve1
        ve3 == IF TrimSpace(p.SubjectID) = <<>> THEN Add(ve2, ErrSubjectIDEmpty) ELSE ve2
        ve4 == Add(ve3, validatePeriod(p.Period))
        ve5 == IF p.Correct < 0 THEN Add(ve4, ErrInvalidCounter) ELSE ve4
        ve6 == IF p.Incorrect < 0 THEN Add(ve5, ErrInvalidCounter) ELSE ve5
    IN  ve6

NewPerformance(id, userID, subjectID, period, correct, incorrect, t) ==
    LET p == [ID |-> id, UserID |-> userID, SubjectID |-> subjectID,
              Period |-> period, Correct |-> correct, Incorrect |-> incorrect,
              CalculatedAt |-> t]
        ve == Performance_Validate(p)
    IN  IF HasErrors(ve)
        THEN [p |-> NilPtr, err |-> ErrValidation, ve |-> ve.Errors]
        ELSE [p |-> Ptr(p), err |-> NoError, ve |-> <<>>]

Performance_UpdateCorrect(p, t) ==
    [p EXCEPT !.Correct = @ + 1, !.CalculatedAt = t]

Performance_UpdateIncorrect(p, t) ==
    [p EXCEPT !.Incorrect = @ + 1, !.CalculatedAt = t]

Performance_ResetCounters(p, t) ==
    [p EXCEPT !.Correct = 0, !.Incorrect = 0, !.CalculatedAt = t]

\* ValidatePositiveCounts that lets -1 through
ValidatePositiveCounts_AllowsMinusOne(count) ==
    IF count < -1 THEN ErrInvalidCounter ELSE NoError

\* ValidatePositiveCounts: the error it returns
ValidatePositiveCounts(count) ==
    IF count < 0 THEN ErrInvalidCounter ELSE NoError

\* UpdateCounts(correct, incorrect *int): each argument is a pointer, nil to
\* leave that counter alone.  p.Correct is assigned before incorrect is looked at.
Performance_UpdateCounts(p, correct, incorrect, t) ==
    IF correct # NilPtr /\ ValidatePositiveCounts(Deref(correct)) # NoError
    THEN [p |-> p, err |-> ErrInvalidCounter]
    ELSE LET p1 == IF correct # NilPtr
                   THEN [p EXCEPT !.Correct = Deref(correct)]
                   ELSE p
         IN  IF incorrect # NilPtr /\ ValidatePositiveCounts(Deref(incorrect)) # NoError
             THEN [p |-> p1, err |-> ErrInvalidCounter]
             ELSE LET p2 == IF incorrect # NilPtr
                            THEN [p1 EXCEPT !.Incorrect = Deref(incorrect)]
                            ELSE p1
                  IN  [p |-> [p2 EXCEPT !.CalculatedAt = t], err |-> NoError]

GetTotalQuestions(p) == p.Correct + p.Incorrect

\* GetAccuracy: Correct / total * 100 as the fraction num / den, without the
\* rounding of float64; 0.0 when the total is 0
GetAccuracy(p) ==
    IF p.Correct + p.Incorrect = 0
    THEN [num |-> 0, den |-> 1]
    ELSE [num |-> p.Correct * 100, den |-> p.Correct + p.Incorrect]

-----------------------------------------------------------------------------
(* The callers' inputs *)

\* the sequences over S of length at most n
RECURSIVE SeqsUpTo(_, _)
SeqsUpTo(S, n) ==
    IF n = 0 THEN {<<>>}
    ELSE LET shorter == SeqsUpTo(S, n - 1)
         IN  shorter \cup
             {Append(s, x) : s \in {r \in shorter : Len(r) = n - 1}, x \in S}

\* the ID of the Question the options of OptionInputs name, the ID of another
\* Question, and a blank one
QuestionIDInputs == {<<"q", "1">>, <<"q", "2">>, <<" ">>}

SubjectIDInputs == {<<"s", "1">>, <<>>}

ContentInputs == {<<"Q", "?">>, <<" ", "\t">>}

NewContentInputs == {<<"R", "!">>, <<>>, <<"\n", " ">>}

\* every Difficulty value from one below VeryEasy to one above VeryHard
DifficultyInputs == (VeryEasy - 1) .. (VeryHard + 1)

\* the option IDs callers name; no option of OptionInputs has the last one
OptionIDInputs == {<<"o", "1">>, <<"o", "2">>, <<"o", "3">>}

\* Options built by NewOption at time 0, one of them marked correct.  A list
\* may hold the same Option more than once: option IDs are never compared
\* for uniqueness.
OptionInputs ==
    {Deref(NewOption(<<"o", "1">>, <<"q", "1">>, <<"A">>, TRUE, 0).o),
     Deref(NewOption(<<"o", "2">>, <<"q", "1">>, <<"B">>, FALSE, 0).o)}

OptionListInputs == SeqsUpTo(OptionInputs, MaxLen)

-----------------------------------------------------------------------------
(* The peripheral entities as their constructors return them *)

InitOption ==
    Deref(NewOption(<<"o", "9">>, <<"q", "1">>, <<"C">>, FALSE, 0).o)

InitSubject == Deref(NewSubject(<<"s", "1">>, <<"M", "a", "t", "h">>, 0).s)

InitUser ==
    Deref(NewUser(<<"u", "1">>, <<"A", "n", "a">>, <<"a", "@", "b", ".", "c", "o">>,
                  <<"h">>, RoleUser, Medium, 0).u)

InitPerformance ==
    Deref(NewPerformance(<<"p", "1">>, <<"u", "1">>, <<"s", "1">>,
                         PeriodDaily, 0, 0, 0).p)

\* the record of a call: pre is the object the call was made on, as it was
Called(op, arg, err, ve, pre) ==
    [op |-> op, arg |-> arg, err |-> err, ve |-> ve, pre |-> pre]

\* before the first call
NoCall == Called("none", <<>>, NoError, <<>>, NilPtr)

-----------------------------------------------------------------------------
(* Specification Spec: the Question aggregate, one action per call *)

\* no Question is constructed yet, and this specification builds no other entity
Init ==
    /\ q = NilPtr
    /\ option = NilPtr
    /\ subject = NilPtr
    /\ user = NilPtr
    /\ performance = NilPtr
    /\ now = 1
    /\ last = NoCall
    /\ pc = "idle"
    /\ frame = <<>>

\* what a call on the Question leaves alone
QuestionFrame == UNCHANGED <<option, subject, user, performance, pc, frame>>

\* the construction is the first call; a failed one leaves nothing to call

CallNewQuestion ==
    /\ last.op = "none"
    /\ now <= MaxTime
    /\ \E id \in QuestionIDInputs, subjectID \in SubjectIDInputs,
          content \in ContentInputs, difficulty \in DifficultyInputs,
          options \in OptionListInputs :
        /\ LET r == NewQuestion(id, subjectID, content, difficulty, options, now)
           IN  /\ q' = r.q
               /\ last' = Called("NewQuestion",
                                 [id |-> id, subjectID |-> subjectID,
                                  content |-> content, difficulty |-> difficulty,
                                  options |-> options],
                                 r.err, r.ve, q)
        /\ now' = now + 1
        /\ QuestionFrame

\* a mutator call on the Question: r is what the method leaves and returns
Mutate(op, arg, r) ==
    /\ q' = Ptr(r.q)
    /\ last' = Called(op, arg, r.err, <<>>, q)
    /\ now' = now + 1
    /\ QuestionFrame

CallUpdateContent ==
    /\ q # NilPtr
    /\ now <= MaxTime
    /\ \E newContent \in NewContentInputs :
        Mutate("UpdateContent", newContent,
                  Question_UpdateContent(Deref(q), newContent, now))

CallUpdateDifficulty ==
    /\ q # NilPtr
    /\ now <= MaxTime
    /\ \E newDifficulty \in DifficultyInputs :
        Mutate("UpdateDifficulty", newDifficulty,
                  Question_UpdateDifficulty(Deref(q), newDifficulty, now))

CallUpdateOptions ==
    /\ q # NilPtr
    /\ now <= MaxTime
    /\ \E newOptions \in OptionListInputs :
        Mutate("UpdateOptions", newOptions,
                  Question_UpdateOptions(Deref(q), newOptions, now))

CallAddOption ==
    /\ q # NilPtr
    /\ now <= MaxTime
    /\ \E opt \in OptionInputs :
        Mutate("AddOption", opt, Question_AddOption(Deref(q), opt, now))

CallRemoveOption ==
    /\ q # NilPtr
    /\ now <= MaxTime
    /\ \E optionID \in OptionIDInputs :
        Mutate("RemoveOption", optionID,
                  Question_RemoveOption(Deref(q), optionID, now))

CallSetCorrectOption ==
    /\ q # NilPtr
    /\ now <= MaxTime
    /\ \E optionID \in OptionIDInputs :
        Mutate("SetCorrectOption", optionID,
                  Question_SetCorrectOption(Deref(q), optionID, now))

Next ==
    \/ CallNewQuestion
    \/ CallUpdateContent
    \/ CallUpdateDifficulty
    \/ CallUpdateOptions
    \/ CallAddOption
    \/ CallRemoveOption
    \/ CallSetCorrectOption

Spec == Init /\ [][Next]_vars

-----------------------------------------------------------------------------
(* Specification SpecSteps: the Question mutators statement by statement.  *)
(* A call enters, computes its tentative value, validates it and commits;  *)
(* q is the Question as any reader of the pointer sees it between steps.   *)

\* the mutators of the Question
Mutators ==
    {"UpdateContent", "UpdateDifficulty", "UpdateOptions", "AddOption",
     "RemoveOption", "SetCorrectOption"}

\* the arguments a caller passes to each mutator
ArgumentInputs(op) ==
    CASE op = "UpdateContent" -> NewContentInputs
      [] op = "UpdateDifficulty" -> DifficultyInputs
      [] op = "UpdateOptions" -> OptionListInputs
      [] op = "AddOption" -> OptionInputs
      [] op = "RemoveOption" -> OptionIDInputs
      [] op = "SetCorrectOption" -> OptionIDInputs

\* the checks a mutator makes before it computes anything
entryCheck(op, qv, arg) ==
    CASE op = "AddOption" ->
            IF Len(qv.Options) >= qv.Difficulty
            THEN ErrAddOptionExceedsLimit ELSE NoError
      [] op = "RemoveOption" ->
            IF Len(qv.Options) <= VeryEasy
            THEN ErrRemoveOptionBelowLimit ELSE NoError
      [] OTHER -> NoError

\* the local a mutator builds: the new content, difficulty or options list
tentativeValue(op, qv, arg) ==
    CASE op = "AddOption" -> Append(qv.Options, arg)
      [] op = "RemoveOption" -> removeLoop(qv.Options, arg)
      [] OTHER -> arg

\* the validation a mutator runs on its tentative value; found is the flag
\* the search loops of RemoveOption and SetCorrectOption set
validationOf(op, qv, tentative, found) ==
    CASE op = "UpdateContent" -> validateQuestionContent(tentative)
      [] op = "UpdateDifficulty" ->
            IF ValidateDifficulty(tentative) # NoError
            THEN ValidateDifficulty(tentative)
            ELSE IF Len(qv.Options) > tentative
                 THEN ErrChangeDifficulty ELSE NoError
      [] op = "UpdateOptions" -> validateOptions(tentative, qv.Difficulty)
      [] op = "AddOption" -> validateOptions(tentative, qv.Difficulty)
      [] op = "RemoveOption" ->
            IF ~found THEN ErrOptionNotFound
            ELSE validateOptions(tentative, qv.Difficulty)
      [] op = "SetCorrectOption" ->
            IF ~found THEN ErrOptionNotFound
            ELSE validateOptions(qv.Options, qv.Difficulty)

\* the assignments a mutator makes once validation has passed
commitOf(op, qv, tentative, t) ==
    CASE op = "UpdateContent" ->
            [qv EXCEPT !.Content = tentative, !.UpdatedAt = t]
      [] op = "UpdateDifficulty" ->
            [qv EXCEPT !.Difficulty = tentative, !.UpdatedAt = t]
      [] op \in {"UpdateOptions", "AddOption", "RemoveOption"} ->
            [qv EXCEPT !.Options = tentative, !.UpdatedAt = t]
      [] op = "SetCorrectOption" ->
            [qv EXCEPT !.UpdatedAt = t]

EntityFrame == UNCHANGED <<option, subject, user, performance>>

\* the call returns err to the caller
Return(err) ==
    /\ pc' = "idle"
    /\ frame' = <<>>
    /\ last' = Called(frame.op, frame.arg, err, <<>>, frame.pre)

\* a caller invokes a mutator; SetCorrectOption reads time.Now() on entry, the
\* others when they commit, and no other call runs in between
StepEnter ==
    /\ pc = "idle"
    /\ q # NilPtr
    /\ now <= MaxTime
    /\ \E op \in Mutators :
        \E arg \in ArgumentInputs(op) :
            frame' = [op |-> op, arg |-> arg, pre |-> q, t |-> now, i |-> 1,
                      found |-> FALSE, tentative |-> <<>>, validated |-> FALSE]
    /\ pc' = "compute"
    /\ now' = now + 1
    /\ UNCHANGED <<q, last>>
    /\ EntityFrame

\* the entry check and the tentative value of every mutator but SetCorrectOption
StepCompute ==
    /\ pc = "compute"
    /\ frame.op # "SetCorrectOption"
    /\ IF entryCheck(frame.op, Deref(q), frame.arg) # NoError
       THEN Return(entryCheck(frame.op, Deref(q), frame.arg))
       ELSE /\ pc' = "validate"
            /\ frame' = [frame EXCEPT
                    !.tentative = tentativeValue(frame.op, Deref(q), frame.arg),
                    !.found = (frame.op = "RemoveOption" /\
                               \E k \in DOMAIN Deref(q).Options :
                                   Deref(q).Options[k].ID = frame.arg)]
            /\ last' = last
    /\ UNCHANGED <<q, now>>
    /\ EntityFrame

\* one iteration of the loop of SetCorrectOption: q.Options[i] is assigned
StepSetCorrectLoop ==
    /\ pc = "compute"
    /\ frame.op = "SetCorrectOption"
    /\ IF frame.i <= Len(Deref(q).Options)
       THEN /\ q' = Ptr([Deref(q) EXCEPT !.Options[frame.i] =
                            setCorrectStep(@, frame.arg, frame.t)])
            /\ frame' = [frame EXCEPT
                    !.i = @ + 1,
                    !.found = @ \/ Deref(q).Options[frame.i].ID = frame.arg]
            /\ pc' = pc
       ELSE /\ pc' = "validate"
            /\ UNCHANGED <<q, frame>>
    /\ UNCHANGED <<now, last>>
    /\ EntityFrame

\* the validation of the tentative value
StepValidate ==
    /\ pc = "validate"
    /\ LET err == validationOf(frame.op, Deref(q), frame.tentative, frame.found)
       IN  IF err # NoError
           THEN Return(err)
           ELSE /\ pc' = "commit"
                /\ frame' = [frame EXCEPT !.validated = TRUE]
                /\ last' = last
    /\ UNCHANGED <<q, now>>
    /\ EntityFrame

\* the assignments to the Question, and the nil return
StepCommit ==
    /\ pc = "commit"
    /\ q' = Ptr(commitOf(frame.op, Deref(q), frame.tentative, frame.t))
    /\ Return(NoError)
    /\ UNCHANGED now
    /\ EntityFrame

NextSteps ==
    \/ CallNewQuestion
    \/ StepEnter
    \/ StepCompute
    \/ StepSetCorrectLoop
    \/ StepValidate
    \/ StepCommit

SpecSteps == Init /\ [][NextSteps]_vars

-----------------------------------------------------------------------------
(* Specification SpecEntities: the peripheral entities, each as its        *)
(* constructor returned it, and the calls of their mutators.               *)

\* a name that is kept (trimmed) and one too short once trimmed
NameInputs == {<<" ", "B", "o", "b", " ">>, <<" ", "a", "b">>}

EmailInputs ==
    {<<" ", "C", "@", "D", ".", "i", "o">>, <<"x", "@", "y">>, <<" ">>}

RoleInputs == {RoleAdmin, "", "GUEST"}

\* the *int arguments of UpdateCounts: nil, a negative and a valid count
CountInputs == {NilPtr, Ptr(-1), Ptr(2)}

InitEntities ==
    /\ q = NilPtr
    /\ option = Ptr(InitOption)
    /\ subject = Ptr(InitSubject)
    /\ user = Ptr(InitUser)
    /\ performance = Ptr(InitPerformance)
    /\ now = 1
    /\ last = NoCall
    /\ pc = "idle"
    /\ frame = <<>>

CallOptionUpdateContent ==
    /\ option # NilPtr
    /\ now <= MaxTime
    /\ \E newContent \in NewContentInputs :
        LET r == Option_UpdateContent(Deref(option), newContent, now)
        IN  /\ option' = Ptr(r.o)
            /\ last' = Called("Option.UpdateContent", newContent, r.err, <<>>, option)
    /\ now' = now + 1
    /\ UNCHANGED <<q, subject, user, performance, pc, frame>>

CallSubjectUpdateName ==
    /\ now <= MaxTime
    /\ \E newName \in NameInputs :
        LET r == Subject_UpdateName(Deref(subject), newName, now)
        IN  /\ subject' = Ptr(r.s)
            /\ last' = Called("Subject.UpdateName", newName, r.err, <<>>, subject)
    /\ now' = now + 1
    /\ UNCHANGED <<q, option, user, performance, pc, frame>>

\* a call on the User: r is what the method leaves and returns
UserCall(op, arg, r) ==
    /\ user' = Ptr(r.u)
    /\ last' = Called(op, arg, r.err, <<>>, user)
    /\ now' = now + 1
    /\ UNCHANGED <<q, option, subject, performance, pc, frame>>

CallUserUpdateName ==
    /\ user # NilPtr
    /\ now <= MaxTime
    /\ \E newName \in NameInputs :
        UserCall("User.UpdateName", newName,
                 User_UpdateName(Deref(user), newName, now))

CallUserUpdateEmail ==
    /\ user # NilPtr
    /\ now <= MaxTime
    /\ \E newEmail \in EmailInputs :
        UserCall("User.UpdateEmail", newEmail,
                 User_UpdateEmail(Deref(user), newEmail, now))

CallUserUpdateRole ==
    /\ user # NilPtr
    /\ now <= MaxTime
    /\ \E role \in RoleInputs :
        UserCall("User.UpdateRole", role,
                 User_UpdateRole(Deref(user), role, now))

CallUserUpdateDifficulty ==
    /\ user # NilPtr
    /\ now <= MaxTime
    /\ \E difficulty \in DifficultyInputs :
        UserCall("User.UpdateDifficulty", difficulty,
                 User_UpdateDifficulty(Deref(user), difficulty, now))

CallUserActivate ==
    /\ user # NilPtr
    /\ now <= MaxTime
    /\ UserCall("User.Activate", <<>>,
                [u |-> User_Activate(Deref(user), now), err |-> NoError])

CallUserDeactivate ==
    /\ user # NilPtr
    /\ now <= MaxTime
    /\ UserCall("User.Deactivate", <<>>,
                [u |-> User_Deactivate(Deref(user), now), err |-> NoError])

\* a call on the Performance: r is what the method leaves and returns
PerformanceCall(op, arg, r) ==
    /\ performance' = Ptr(r.p)
    /\ last' = Called(op, arg, r.err, <<>>, performance)
    /\ now' = now + 1
    /\ UNCHANGED <<q, option, subject, user, pc, frame>>

CallUpdateCorrect ==
    /\ performance # NilPtr
    /\ now <= MaxTime
    /\ PerformanceCall("Performance.UpdateCorrect", <<>>,
            [p |-> Performance_UpdateCorrect(Deref(performance), now),
             err |-> NoError])

CallUpdateIncorrect ==
    /\ performance # NilPtr
    /\ now <= MaxTime
    /\ PerformanceCall("Performance.UpdateIncorrect", <<>>,
            [p |-> Performance_UpdateIncorrect(Deref(performance), now),
             err |-> NoError])

CallResetCounters ==
    /\ performance # NilPtr
    /\ now <= MaxTime
    /\ PerformanceCall("Performance.ResetCounters", <<>>,
            [p |-> Performance_ResetCounters(Deref(performance), now),
             err |-> NoError])

CallUpdateCounts ==
    /\ performance # NilPtr
    /\ now <= MaxTime
    /\ \E correct \in CountInputs :
        \E incorrect \in CountInputs :
            PerformanceCall("Performance.UpdateCounts",
                [correct |-> correct, incorrect |-> incorrect],
                Performance_UpdateCounts(Deref(performance), correct,
                                         incorrect, now))

NextEntities ==
    \/ CallOptionUpdateContent
    \/ CallSubjectUpdateName
    \/ CallUserUpdateName
    \/ CallUserUpdateEmail
    \/ CallUserUpdateRole
    \/ CallUserUpdateDifficulty
    \/ CallUserActivate
    \/ CallUserDeactivate
    \/ CallUpdateCorrect
    \/ CallUpdateIncorrect
    \/ CallResetCounters
    \/ CallUpdateCounts

SpecEntities == InitEntities /\ [][NextEntities]_vars

-----------------------------------------------------------------------------
(* Specification SpecDifficulty: a Difficulty variable d of the caller and *)
(* the functions of difficulty.go applied to it and to the caller's        *)
(* integers and JSON texts.  frame holds d and the value last returned.    *)

IntInputs == (VeryEasy - MaxDelta) .. (VeryHard + MaxDelta)

Levels == {VeryEasy, Easy, Medium, Hard, VeryHard}

\* the strings a caller may try to decode: the five labels, the label of an
\* out-of-range value, and near misses in case, spacing and form
StringInputs ==
    {Difficulty_String(v) : v \in IntInputs}
        \cup {<<>>, <<"e", "a", "s", "y">>, <<"E", "a", "s", "y", " ">>,
              <<"V", "e", "r", "y", "E", "a", "s", "y">>, <<"4">>}

\* the JSON texts handed to UnmarshalJSON: the strings above encoded, null,
\* a number and an unterminated string
DataInputs ==
    {json_Marshal(str) : str \in StringInputs}
        \cup {JSONNull, <<"4">>, <<Quote, "E", "a", "s", "y">>}

InitDifficulty ==
    /\ q = NilPtr
    /\ option = NilPtr
    /\ subject = NilPtr
    /\ user = NilPtr
    /\ performance = NilPtr
    /\ now = 1
    /\ last = NoCall
    /\ pc = "idle"
    /\ frame \in [d : IntInputs, ret : {<<>>}]

\* a call of a function of difficulty.go: d is the target afterwards, ret the
\* value returned
DifficultyCall(op, arg, d, ret, err) ==
    /\ frame' = [d |-> d, ret |-> ret]
    /\ last' = Called(op, arg, err, <<>>, Ptr(frame.d))
    /\ UNCHANGED <<q, option, subject, user, performance, now, pc>>

CallValidateDifficulty ==
    /\ pc = "idle"
    /\ \E v \in IntInputs :
        DifficultyCall("ValidateDifficulty", v, frame.d,
                       ValidateDifficultyResult(v).d,
                       ValidateDifficultyResult(v).err)

CallFromInt ==
    /\ pc = "idle"
    /\ \E v \in IntInputs :
        DifficultyCall("FromInt", v, frame.d, FromInt(v).d, FromInt(v).err)

CallToInt ==
    /\ pc = "idle"
    /\ DifficultyCall("ToInt", <<>>, frame.d, ToInt(frame.d), NoError)

CallString ==
    /\ pc = "idle"
    /\ DifficultyCall("String", <<>>, frame.d, Difficulty_String(frame.d), NoError)

CallMarshalJSON ==
    /\ pc = "idle"
    /\ DifficultyCall("MarshalJSON", <<>>, frame.d,
                   Difficulty_MarshalJSON(frame.d), NoError)

CallUnmarshalJSON ==
    /\ pc = "idle"
    /\ \E data \in DataInputs :
        DifficultyCall("UnmarshalJSON", data,
                       Difficulty_UnmarshalJSON(frame.d, data).d, <<>>,
                       Difficulty_UnmarshalJSON(frame.d, data).err)

NextDifficulty ==
    \/ CallValidateDifficulty
    \/ CallFromInt
    \/ CallToInt
    \/ CallString
    \/ CallMarshalJSON
    \/ CallUnmarshalJSON

SpecDifficulty == InitDifficulty /\ [][NextDifficulty]_vars

-----------------------------------------------------------------------------
(* Specification SpecValidationError: one ValidationError and the calls of *)
(* its methods.  frame holds the ValidationError, the arguments of the Add *)
(* calls so far and the value last returned.                               *)

\* the errors handed to Add: nil and three of the package's errors
ErrorInputs ==
    {NoError, ErrOptionIDEmpty, ErrQuestionIDEmpty, ErrEmptyOptionContent}

InitValidationError ==
    /\ q = NilPtr
    /\ option = NilPtr
    /\ subject = NilPtr
    /\ user = NilPtr
    /\ performance = NilPtr
    /\ now = 1
    /\ last = NoCall
    /\ pc = "idle"
    /\ frame = [ve |-> NewValidationError, args |-> <<>>, ret |-> <<>>]

CallAdd ==
    /\ Len(frame.args) < MaxLen
    /\ \E err \in ErrorInputs :
        /\ frame' = [ve |-> Add(frame.ve, err),
                     args |-> Append(frame.args, err),
                     ret |-> <<>>]
        /\ last' = Called("Add", err, NoError, <<>>, Ptr(frame.ve))
    /\ UNCHANGED <<q, option, subject, user, performance, now, pc>>

CallHasErrors ==
    /\ pc = "idle"
    /\ frame' = [frame EXCEPT !.ret = HasErrors(frame.ve)]
    /\ last' = Called("HasErrors", <<>>, NoError, <<>>, Ptr(frame.ve))
    /\ UNCHANGED <<q, option, subject, user, performance, now, pc>>

CallUnwrap ==
    /\ pc = "idle"
    /\ frame' = [frame EXCEPT !.ret = Unwrap(frame.ve)]
    /\ last' = Called("Unwrap", <<>>, NoError, <<>>, Ptr(frame.ve))
    /\ UNCHANGED <<q, option, subject, user, performance, now, pc>>

NextValidationError ==
    \/ CallAdd
    \/ CallHasErrors
    \/ CallUnwrap

SpecValidationError == InitValidationError /\ [][NextValidationError]_vars

-----------------------------------------------------------------------------
(* Specification SpecOption: an Option from its construction on.           *)

\* IDs for NewOption: one kept as given, one padded, an empty and a blank one
IDInputs == {<<"o", "1">>, <<" ", "q", "1">>, <<>>, <<" ", "\t">>}

CallNewOption ==
    /\ last.op = "none"
    /\ now <= MaxTime
    /\ \E id \in IDInputs :
        \E questionID \in IDInputs :
            \E content \in NewContentInputs :
                \E isCorrect \in BOOLEAN :
                    LET r == NewOption(id, questionID, content, isCorrect, now)
                    IN  /\ option' = r.o
                        /\ last' = Called("NewOption",
                                [id |-> id, questionID |-> questionID,
                                 content |-> content, isCorrect |-> isCorrect],
                                r.err, r.ve, option)
    /\ now' = now + 1
    /\ UNCHANGED <<q, subject, user, performance, pc, frame>>

NextOption ==
    \/ CallNewOption
    \/ CallOptionUpdateContent

SpecOption == Init /\ [][NextOption]_vars

-----------------------------------------------------------------------------
(* Specification SpecShared: a Question built from options that share IDs, *)
(* and the two mutators that look options up by ID.                        *)

\* the Options of OptionInputs and one more with the ID of the correct one
\* that is not marked correct
SharedIDOptionInputs ==
    OptionInputs \cup
        {Deref(NewOption(<<"o", "1">>, <<"q", "1">>, <<"C">>, FALSE, 0).o)}

\* lists one longer than the other lists, so that a list still has two
\* options after both holders of an ID are taken out
SharedIDListInputs == SeqsUpTo(SharedIDOptionInputs, MaxLen + 1)

CallNewQuestionShared ==
    /\ last.op = "none"
    /\ now <= MaxTime
    /\ \E difficulty \in DifficultyInputs :
        \E options \in SharedIDListInputs :
            LET r == NewQuestion(<<"q", "1">>, <<"s", "1">>, <<"Q", "?">>,
                                 difficulty, options, now)
            IN  /\ q' = r.q
                /\ last' = Called("NewQuestion",
                                  [id |-> <<"q", "1">>, subjectID |-> <<"s", "1">>,
                                   content |-> <<"Q", "?">>,
                                   difficulty |-> difficulty,
                                   options |-> options],
                                  r.err, r.ve, q)
    /\ now' = now + 1
    /\ QuestionFrame

NextShared ==
    \/ CallNewQuestionShared
    \/ CallRemoveOption
    \/ CallSetCorrectOption

SpecShared == Init /\ [][NextShared]_vars

-----------------------------------------------------------------------------
(* Specification SpecPerformance: a Performance from its construction on,  *)
(* its mutators and its two derived values.  frame holds the value a       *)
(* getter returned.                                                        *)

\* the counters handed to NewPerformance
CounterInputs == {-1, 0, 2}

PeriodInputs == {PeriodDaily, PeriodYearly, "hourly"}

CallNewPerformance ==
    /\ last.op = "none"
    /\ now <= MaxTime
    /\ \E period \in PeriodInputs :
        \E correct \in CounterInputs :
            \E incorrect \in CounterInputs :
                LET r == NewPerformance(<<"p", "1">>, <<"u", "1">>, <<"s", "1">>,
                                        period, correct, incorrect, now)
                IN  /\ performance' = r.p
                    /\ last' = Called("NewPerformance",
                                      [period |-> period, correct |-> correct,
                                       incorrect |-> incorrect],
                                      r.err, r.ve, performance)
    /\ now' = now + 1
    /\ UNCHANGED <<q, option, subject, user, pc, frame>>

CallGetTotalQuestions ==
    /\ performance # NilPtr
    /\ frame' = [ret |-> GetTotalQuestions(Deref(performance))]
    /\ last' = Called("Performance.GetTotalQuestions", <<>>, NoError, <<>>,
                      performance)
    /\ UNCHANGED <<q, option, subject, user, performance, now, pc>>

CallGetAccuracy ==
    /\ performance # NilPtr
    /\ frame' = [ret |-> GetAccuracy(Deref(performance))]
    /\ last' = Called("Performance.GetAccuracy", <<>>, NoError, <<>>,
                      performance)
    /\ UNCHANGED <<q, option, subject, user, performance, now, pc>>

NextPerformance ==
    \/ CallNewPerformance
    \/ CallUpdateCorrect
    \/ CallUpdateIncorrect
    \/ CallResetCounters
    \/ CallUpdateCounts
    \/ CallGetTotalQuestions
    \/ CallGetAccuracy

SpecPerformance == Init /\ [][NextPerformance]_vars

-----------------------------------------------------------------------------
(* Specification SpecValidateOptions: validateOptions applied to a list of *)
(* options and a Difficulty of the caller.  frame holds the two arguments  *)
(* and the error returned.                                                 *)

InitValidateOptions ==
    /\ q = NilPtr
    /\ option = NilPtr
    /\ subject = NilPtr
    /\ user = NilPtr
    /\ performance = NilPtr
    /\ now = 1
    /\ last = NoCall
    /\ pc = "idle"
    /\ frame \in [options : OptionListInputs, difficulty : DifficultyInputs,
                  ret : {<<>>}]

CallValidateOptions ==
    /\ last.op = "none"
    /\ frame' = [frame EXCEPT
                    !.ret = validateOptions(frame.options, frame.difficulty)]
    /\ last' = Called("validateOptions",
                      [options |-> frame.options,
                       difficulty |-> frame.difficulty],
                      validateOptions(frame.options, frame.difficulty),
                      <<>>, NilPtr)
    /\ UNCHANGED <<q, option, subject, user, performance, now, pc>>

NextValidateOptions ==
    \/ CallValidateOptions

SpecValidateOptions == InitValidateOptions /\ [][NextValidateOptions]_vars

-----------------------------------------------------------------------------
(* Specification SpecUser: a User from its construction on, its mutators   *)
(* and its two status predicates.  frame holds the value a predicate       *)
(* returned.                                                               *)

CallNewUser ==
    /\ last.op = "none"
    /\ now <= MaxTime
    /\ \E id \in {<<"u", "1">>, <<" ">>} :
        \E name \in NameInputs :
            \E email \in EmailInputs :
                \E passwordHash \in {<<"h">>, <<>>} :
                    \E role \in RoleInputs :
                        \E difficulty \in DifficultyInputs :
                            LET r == NewUser(id, name, email, passwordHash,
                                             role, difficulty, now)
                            IN  /\ user' = r.u
                                /\ last' = Called("NewUser",
                                        [id |-> id, name |-> name,
                                         email |-> email,
                                         passwordHash |-> passwordHash,
                                         role |-> role,
                                         difficulty |-> difficulty],
                                        r.err, r.ve, user)
    /\ now' = now + 1
    /\ UNCHANGED <<q, option, subject, performance, pc, frame>>

CallIsActive ==
    /\ user # NilPtr
    /\ frame' = [ret |-> IsActive(Deref(user))]
    /\ last' = Called("User.IsActive", <<>>, NoError, <<>>, user)
    /\ UNCHANGED <<q, option, subject, user, performance, now, pc>>

CallIsInactive ==
    /\ user # NilPtr
    /\ frame' = [ret |-> IsInactive(Deref(user))]
    /\ last' = Called("User.IsInactive", <<>>, NoError, <<>>, user)
    /\ UNCHANGED <<q, option, subject, user, performance, now, pc>>

NextUser ==
    \/ CallNewUser
    \/ CallUserUpdateName
    \/ CallUserUpdateEmail
    \/ CallUserUpdateRole
    \/ CallUserUpdateDifficulty
    \/ CallUserActivate
    \/ CallUserDeactivate
    \/ CallIsActive
    \/ CallIsInactive

SpecUser == Init /\ [][NextUser]_vars

-----------------------------------------------------------------------------
(* Vocabulary of the properties *)

\* the Question before and after the last mutator call
Before == Deref(last.pre)

After == Deref(q)

\* the options invariant, stated on the list itself
OptionsInvariant(options, difficulty) ==
    /\ 2 <= Len(options)
    /\ Len(options) <= difficulty
    /\ Cardinality({i \in DOMAIN options : options[i].IsCorrect}) = 1

HasOptionID(options, optionID) ==
    \E i \in DOMAIN options : options[i].ID = optionID

NonBlank(s) == \E i \in DOMAIN s : s[i] \notin WhiteSpace

-----------------------------------------------------------------------------
(* Properties of the Question aggregate, checked under Spec *)

\* C1: the state observed after every successful mutator call has between 2
\* and int(Difficulty) options and exactly one correct option.
C1_InvariantAfterSuccessfulMutator ==
    (last.op \in Mutators /\ last.err = NoError)
        => OptionsInvariant(After.Options, After.Difficulty)

\* C2: SetCorrectOption with an ID that matches no option fails with
\* ErrOptionNotFound and leaves every option's IsCorrect and UpdatedAt and the
\* Question's UpdatedAt as they were.
C2_NotFoundTouchesNothing ==
    (last.op = "SetCorrectOption" /\ ~HasOptionID(Before.Options, last.arg))
        => /\ last.err = ErrOptionNotFound
           /\ Len(After.Options) = Len(Before.Options)
           /\ \A i \in DOMAIN Before.Options :
                /\ After.Options[i].IsCorrect = Before.Options[i].IsCorrect
                /\ After.Options[i].UpdatedAt = Before.Options[i].UpdatedAt
           /\ After.UpdatedAt = Before.UpdatedAt

\* C3: SetCorrectOption with an ID that matches an option of a valid Question
\* succeeds, and afterwards the matching option is correct and every other
\* option is not.
C3_SetCorrectOptionSucceeds ==
    (/\ last.op = "SetCorrectOption"
     /\ OptionsInvariant(Before.Options, Before.Difficulty)
     /\ HasOptionID(Before.Options, last.arg))
        => /\ last.err = NoError
           /\ Len(After.Options) = Len(Before.Options)
           /\ \A i \in DOMAIN Before.Options :
                After.Options[i].IsCorrect = (Before.Options[i].ID = last.arg)

\* C4: AddOption on a Question whose option count equals int(Difficulty)
\* fails with ErrAddOptionExceedsLimit, whatever the option, and leaves the
\* Question (its options and UpdatedAt) as it was.
C4_AddOptionAtLimit ==
    (last.op = "AddOption" /\ Len(Before.Options) = Before.Difficulty)
        => /\ last.err = ErrAddOptionExceedsLimit
           /\ After.Options = Before.Options
           /\ After.UpdatedAt = Before.UpdatedAt

\* C4, the case: a Medium Question with 4 options was asked to add a fifth
C4_Witness ==
    /\ last.op = "AddOption"
    /\ Before.Difficulty = Medium
    /\ Len(Before.Options) = 4
    /\ last.err = ErrAddOptionExceedsLimit

\* C5: RemoveOption on a Question with exactly 2 options fails with
\* ErrRemoveOptionBelowLimit, whether or not the ID matches an option, and
\* leaves the options as they were.
C5_RemoveOptionAtFloor ==
    (last.op = "RemoveOption" /\ Len(Before.Options) = 2)
        => /\ last.err = ErrRemoveOptionBelowLimit
           /\ After.Options = Before.Options

\* C5, the cases: at 2 options a matching ID was refused
C5_Witness ==
    /\ last.op = "RemoveOption"
    /\ Len(Before.Options) = 2
    /\ HasOptionID(Before.Options, last.arg)
    /\ last.err = ErrRemoveOptionBelowLimit

\* C6: UpdateDifficulty(new) fails with ErrInvalidDifficulty when new is
\* outside 2..6; for a valid new it fails with ErrChangeDifficulty and keeps
\* Difficulty when there are more than new options, and otherwise succeeds
\* and sets Difficulty to new.
C6_UpdateDifficulty ==
    (last.op = "UpdateDifficulty")
        => /\ (last.arg \notin 2 .. 6) => last.err = ErrInvalidDifficulty
           /\ (last.arg \in 2 .. 6 /\ Len(Before.Options) > last.arg)
                => /\ last.err = ErrChangeDifficulty
                   /\ After.Difficulty = Before.Difficulty
           /\ (last.arg \in 2 .. 6 /\ Len(Before.Options) <= last.arg)
                => /\ last.err = NoError
                   /\ After.Difficulty = last.arg

\* C6, the case: a downgrade below the number of options was refused
C6_Witness ==
    /\ last.op = "UpdateDifficulty"
    /\ last.arg \in 2 .. 6
    /\ last.arg < Before.Difficulty
    /\ Len(Before.Options) > last.arg
    /\ last.err = ErrChangeDifficulty

\* C7: UpdateOptions replaces or rejects: a list with between 2 and
\* int(Difficulty) options, exactly one correct, becomes the Question's
\* options; any other list fails with ErrQuantityOptions or
\* ErrInvalidCorrectOptions and leaves Options, Difficulty and UpdatedAt as
\* they were.
C7_UpdateOptionsReplaceOrReject ==
    (last.op = "UpdateOptions")
        => IF OptionsInvariant(last.arg, Before.Difficulty)
           THEN /\ last.err = NoError
                /\ After.Options = last.arg
           ELSE /\ last.err \in {ErrQuantityOptions, ErrInvalidCorrectOptions}
                /\ After.Options = Before.Options
                /\ After.Difficulty = Before.Difficulty
                /\ After.UpdatedAt = Before.UpdatedAt

\* C7, the case: a list other than the current one was rejected
C7_Witness ==
    /\ last.op = "UpdateOptions"
    /\ last.err = ErrInvalidCorrectOptions
    /\ last.arg # Before.Options

\* C8: NewQuestion returns a Question and no error, or no Question and an
\* error; a returned Question has non-blank ID, SubjectID and Content, a
\* Difficulty in 2..6 and options that satisfy the options invariant; three
\* options of which two are correct are refused with ErrInvalidCorrectOptions.
C8_NewQuestionConstructsNothingInvalid ==
    (last.op = "NewQuestion")
        => /\ (q # NilPtr) <=> (last.err = NoError)
           /\ (q # NilPtr)
                => /\ NonBlank(After.ID)
                   /\ NonBlank(After.SubjectID)
                   /\ NonBlank(After.Content)
                   /\ After.Difficulty \in 2 .. 6
                   /\ OptionsInvariant(After.Options, After.Difficulty)
           /\ (/\ Len(last.arg.options) = 3
               /\ Cardinality({i \in 1 .. 3 : last.arg.options[i].IsCorrect}) = 2
               /\ last.arg.difficulty >= Easy)
                => /\ q = NilPtr
                   /\ \E k \in DOMAIN last.ve : last.ve[k] = ErrInvalidCorrectOptions

\* C8, the case: three options, two of them correct, were passed
C8_Witness ==
    /\ last.op = "NewQuestion"
    /\ Len(last.arg.options) = 3
    /\ Cardinality({i \in 1 .. 3 : last.arg.options[i].IsCorrect}) = 2
    /\ last.arg.difficulty = Medium
    /\ NonBlank(last.arg.id)
    /\ q = NilPtr

-----------------------------------------------------------------------------
(* Properties of the mutators' steps, checked under SpecSteps *)

\* what the one-action model of the last mutator call gives from last.pre
AtomicResult ==
    CASE last.op = "UpdateContent" ->
            Question_UpdateContent(Before, last.arg, After.UpdatedAt)
      [] last.op = "UpdateDifficulty" ->
            Question_UpdateDifficulty(Before, last.arg, After.UpdatedAt)
      [] last.op = "UpdateOptions" ->
            Question_UpdateOptions(Before, last.arg, After.UpdatedAt)
      [] last.op = "AddOption" ->
            Question_AddOption(Before, last.arg, After.UpdatedAt)
      [] last.op = "RemoveOption" ->
            Question_RemoveOption(Before, last.arg, After.UpdatedAt)
      [] last.op = "SetCorrectOption" ->
            Question_SetCorrectOption(Before, last.arg, now - 1)

\* the steps of a call add up to the call as Spec takes it in one action
StepsAgreeWithCalls ==
    (pc = "idle" /\ last.op \in Mutators)
        => (AtomicResult.err = last.err /\ AtomicResult.q = After)

\* C9: no mutator writes a field of the Question or of its options before the
\* validation of the tentative value has passed: between the steps of a call
\* the Question differs from what it was on entry only once validation has
\* passed, and a call that returns an error leaves it as it was on entry.
C9_NoWriteBeforeValidation ==
    /\ (pc # "idle" /\ q # frame.pre) => frame.validated
    /\ (pc = "idle" /\ last.op \in Mutators /\ last.err # NoError)
            => q = last.pre

-----------------------------------------------------------------------------
(* Properties of the peripheral entities, checked under SpecEntities *)

\* the mutators of the peripheral entities that can return an error
FallibleEntityMutators ==
    {"Option.UpdateContent", "Subject.UpdateName", "User.UpdateName",
     "User.UpdateEmail", "User.UpdateRole", "User.UpdateDifficulty",
     "Performance.UpdateCounts"}

\* the entity the last call was made on, as it is now
Receiver ==
    CASE last.op = "Option.UpdateContent" -> option
      [] last.op = "Subject.UpdateName" -> subject
      [] last.op \in {"User.UpdateName", "User.UpdateEmail", "User.UpdateRole",
                      "User.UpdateDifficulty", "User.Activate",
                      "User.Deactivate"} -> user
      [] OTHER -> performance

\* C10: a mutator of a peripheral entity (Option.UpdateContent,
\* Subject.UpdateName, User.UpdateName/UpdateEmail/UpdateRole/UpdateDifficulty,
\* Performance.UpdateCounts) that returns an error leaves every field of the
\* entity as it was before the call.
C10_ErrorLeavesEntityUnchanged ==
    (last.op \in FallibleEntityMutators /\ last.err # NoError)
        => Receiver = last.pre

-----------------------------------------------------------------------------
(* Properties of difficulty.go, checked under SpecDifficulty *)

\* C11: for every integer v, ValidateDifficulty(Difficulty(v)) and FromInt(v)
\* succeed and return v unchanged if and only if 2 <= v <= 6 and fail with
\* ErrInvalidDifficulty otherwise; the maximum option count ToInt(d) of the
\* five levels is 2, 3, 4, 5, 6 and FromInt(ToInt(d)) = d.
C11_DifficultyRange ==
    /\ last.op \in {"ValidateDifficulty", "FromInt"} =>
          IF 2 <= last.arg /\ last.arg <= 6
          THEN last.err = NoError /\ frame.ret = last.arg
          ELSE last.err = ErrInvalidDifficulty
    /\ (last.op = "ToInt" /\ frame.d \in Levels) =>
          /\ <<frame.d, frame.ret>> \in
                {<<VeryEasy, 2>>, <<Easy, 3>>, <<Medium, 4>>, <<Hard, 5>>,
                 <<VeryHard, 6>>}
          /\ FromInt(frame.ret) = [d |-> frame.d, err |-> NoError]

\* both boundary values have been accepted and both neighbours rejected
C11_Witness ==
    /\ last.op = "FromInt"
    /\ last.arg = 6
    /\ last.err = NoError
    /\ frame.ret = 6
    /\ ValidateDifficultyResult(7).err = ErrInvalidDifficulty
    /\ ValidateDifficultyResult(1).err = ErrInvalidDifficulty
    /\ ValidateDifficultyResult(2).err = NoError

\* the string a JSON text of DataInputs carries, when it carries one
DecodedString == json_Unmarshal(last.arg).str

\* C12: decoding the label String(d) of each of the five levels with
\* UnmarshalJSON yields d; the five labels are pairwise distinct; decoding
\* any other string, "Unknown" included, fails with ErrInvalidDifficulty and
\* leaves the target Difficulty unchanged.
C12_LabelRoundTrip ==
    /\ \A d1, d2 \in Levels :
          Difficulty_String(d1) = Difficulty_String(d2) => d1 = d2
    /\ (last.op = "MarshalJSON" /\ Deref(last.pre) \in Levels) =>
          Difficulty_UnmarshalJSON(0, frame.ret) =
              [d |-> Deref(last.pre), err |-> NoError]
    /\ (last.op = "UnmarshalJSON" /\ json_Unmarshal(last.arg).err = NoError) =>
          IF \E d \in Levels : DecodedString = Difficulty_String(d)
          THEN /\ last.err = NoError
               /\ DecodedString = Difficulty_String(frame.d)
               /\ frame.d \in Levels
          ELSE /\ last.err = ErrInvalidDifficulty
               /\ frame.d = Deref(last.pre)

\* "Unknown" has been decoded into a target that held a level
C12_WitnessUnknown ==
    /\ last.op = "UnmarshalJSON"
    /\ DecodedString = LabelUnknown
    /\ last.err = ErrInvalidDifficulty
    /\ Deref(last.pre) = Hard
    /\ frame.d = Hard

\* a label has been decoded into a target that held another level
C12_Witness ==
    /\ last.op = "UnmarshalJSON"
    /\ DecodedString = LabelVeryHard
    /\ Deref(last.pre) = Easy
    /\ frame.d = VeryHard

-----------------------------------------------------------------------------
(* Ownership of the options, checked under Spec *)

\* C13: in every Question returned by NewQuestion and after every successful
\* UpdateOptions or AddOption, every option in Options has QuestionID equal
\* to the ID of the Question.
C13_OptionsBelongToQuestion ==
    (/\ q # NilPtr
     /\ last.op \in {"NewQuestion", "UpdateOptions", "AddOption"}
     /\ last.err = NoError)
        => \A i \in DOMAIN After.Options :
              After.Options[i].QuestionID = After.ID

-----------------------------------------------------------------------------
(* Properties of the ValidationError, checked under SpecValidationError *)

\* the non-nil elements of a sequence of errors, in order
RECURSIVE NonNil(_)
NonNil(errs) ==
    IF errs = <<>> THEN <<>>
    ELSE IF Head(errs) = NoError THEN NonNil(Tail(errs))
         ELSE <<Head(errs)>> \o NonNil(Tail(errs))

\* C14: after any sequence of Add calls, Errors is exactly the sequence of
\* the non-nil arguments in call order (Add(nil) changes nothing), HasErrors
\* is true if and only if at least one non-nil error was added, and Unwrap
\* returns that same sequence.
C14_Accumulator ==
    /\ frame.ve.Errors = NonNil(frame.args)
    /\ (last.op = "Add" /\ last.arg = NoError) => frame.ve = Deref(last.pre)
    /\ last.op = "HasErrors" =>
          (frame.ret <=> \E i \in DOMAIN frame.args : frame.args[i] # NoError)
    /\ last.op = "Unwrap" => frame.ret = NonNil(frame.args)

\* Unwrap has been called after two errors were added around a nil
C14_Witness ==
    /\ last.op = "Unwrap"
    /\ frame.args = <<ErrQuestionIDEmpty, NoError, ErrOptionIDEmpty>>
    /\ frame.ret = <<ErrQuestionIDEmpty, ErrOptionIDEmpty>>

-----------------------------------------------------------------------------
(* Properties of NewOption, checked under SpecOption *)

\* the errors NewOption owes for its arguments, field by field
OptionErrorsOwed(arg) ==
    (IF NonBlank(arg.id) THEN <<>> ELSE <<ErrOptionIDEmpty>>)
        \o (IF NonBlank(arg.questionID) THEN <<>> ELSE <<ErrQuestionIDEmpty>>)
        \o (IF NonBlank(arg.content) THEN <<>> ELSE <<ErrEmptyOptionContent>>)

\* C15: NewOption returns an Option only when ID, QuestionID and Content are
\* all non-blank after trimming; otherwise it returns nil and one
\* ValidationError that holds every applicable error (ErrOptionIDEmpty,
\* ErrQuestionIDEmpty, ErrEmptyOptionContent), one per violated field.
C15_NewOptionCollectsAll ==
    last.op = "NewOption" =>
        IF OptionErrorsOwed(last.arg) = <<>>
        THEN /\ last.err = NoError
             /\ option # NilPtr
             /\ Deref(option).ID = last.arg.id
             /\ Deref(option).QuestionID = last.arg.questionID
             /\ Deref(option).Content = last.arg.content
             /\ Deref(option).IsCorrect = last.arg.isCorrect
        ELSE /\ option = NilPtr
             /\ last.err = ErrValidation
             /\ last.ve = OptionErrorsOwed(last.arg)

\* NewOption has been called with all three fields blank
C15_Witness ==
    /\ last.op = "NewOption"
    /\ option = NilPtr
    /\ last.ve = <<ErrOptionIDEmpty, ErrQuestionIDEmpty, ErrEmptyOptionContent>>

-----------------------------------------------------------------------------
(* Properties of the lookups by ID, checked under SpecShared *)

\* the sequence without its k-th element
RemoveAt(seq, k) == SubSeq(seq, 1, k - 1) \o SubSeq(seq, k + 1, Len(seq))

\* C16: RemoveOption on a Question with more than 2 options: if no option
\* has the ID it fails with ErrOptionNotFound and Options is unchanged; if it
\* succeeds, the new Options is the old sequence with the matching option
\* removed, the others in their original order, and is one shorter.
C16_RemoveOptionRemovesOne ==
    (last.op = "RemoveOption" /\ Len(Before.Options) > 2) =>
        /\ ~HasOptionID(Before.Options, last.arg) =>
              /\ last.err = ErrOptionNotFound
              /\ After.Options = Before.Options
        /\ last.err = NoError =>
              /\ Len(After.Options) = Len(Before.Options) - 1
              /\ \E k \in DOMAIN Before.Options :
                    /\ Before.Options[k].ID = last.arg
                    /\ After.Options = RemoveAt(Before.Options, k)

\* C17: from every Question reachable through NewQuestion and the mutators,
\* a SetCorrectOption that finds an option with the ID passes its
\* re-validation: it returns no error and leaves exactly one correct option.
C17_RevalidationAlwaysPasses ==
    (last.op = "SetCorrectOption" /\ HasOptionID(Before.Options, last.arg))
        => /\ last.err = NoError
           /\ Cardinality({i \in DOMAIN After.Options :
                              After.Options[i].IsCorrect}) = 1

-----------------------------------------------------------------------------
(* Completeness of the constructor's report, checked under Spec *)

\* the error NewQuestion owes for its options: the count is judged first
OptionsErrorOwed(options, difficulty) ==
    IF Len(options) < 2 \/ Len(options) > difficulty
    THEN <<ErrQuantityOptions>>
    ELSE IF Cardinality({i \in DOMAIN options : options[i].IsCorrect}) # 1
         THEN <<ErrInvalidCorrectOptions>>
         ELSE <<>>

\* the errors NewQuestion owes for its arguments, rule by rule
QuestionErrorsOwed(arg) ==
    (IF NonBlank(arg.id) THEN <<>> ELSE <<ErrQuestionIDEmpty>>)
        \o (IF NonBlank(arg.subjectID) THEN <<>> ELSE <<ErrSubjectIDEmpty>>)
        \o (IF NonBlank(arg.content) THEN <<>> ELSE <<ErrEmptyQuestionContent>>)
        \o (IF 2 <= arg.difficulty /\ arg.difficulty <= 6
            THEN <<>> ELSE <<ErrInvalidDifficulty>>)
        \o OptionsErrorOwed(arg.options, arg.difficulty)

\* C18: whatever combination of blank ID, blank SubjectID, blank Content,
\* out-of-range Difficulty and invalid options NewQuestion is given, the
\* ValidationError it returns holds one error for each violated rule
\* (ErrQuestionIDEmpty, ErrSubjectIDEmpty, ErrEmptyQuestionContent,
\* ErrInvalidDifficulty, and ErrQuantityOptions or ErrInvalidCorrectOptions),
\* in that order, and none for a rule that holds.
C18_NewQuestionReportsAll ==
    last.op = "NewQuestion" =>
        /\ last.ve = QuestionErrorsOwed(last.arg)
        /\ (last.err = NoError) <=> (QuestionErrorsOwed(last.arg) = <<>>)
        /\ (last.err # NoError) => last.err = ErrValidation

\* NewQuestion has been called with all five rules violated
C18_Witness ==
    /\ last.op = "NewQuestion"
    /\ q = NilPtr
    /\ last.ve = <<ErrQuestionIDEmpty, ErrSubjectIDEmpty, ErrEmptyQuestionContent,
                   ErrInvalidDifficulty, ErrInvalidCorrectOptions>>

-----------------------------------------------------------------------------
(* Properties of the Performance, checked under SpecPerformance *)

\* C19: for a Performance returned by NewPerformance, after any sequence of
\* UpdateCorrect, UpdateIncorrect, ResetCounters and UpdateCounts calls,
\* Correct >= 0 and Incorrect >= 0, GetTotalQuestions() = Correct + Incorrect
\* and GetAccuracy() is 0 whenever Correct + Incorrect = 0; NewPerformance
\* rejects a negative correct or incorrect with ErrInvalidCounter.
C19_CountersNeverNegative ==
    /\ performance # NilPtr =>
          /\ Deref(performance).Correct >= 0
          /\ Deref(performance).Incorrect >= 0
    /\ last.op = "Performance.GetTotalQuestions" =>
          frame.ret = Deref(performance).Correct + Deref(performance).Incorrect
    /\ (/\ last.op = "Performance.GetAccuracy"
        /\ Deref(performance).Correct + Deref(performance).Incorrect = 0) =>
          frame.ret.num = 0
    /\ (/\ last.op = "NewPerformance"
        /\ (last.arg.correct < 0 \/ last.arg.incorrect < 0)) =>
          /\ performance = NilPtr
          /\ last.err = ErrValidation
          /\ \E i \in DOMAIN last.ve : last.ve[i] = ErrInvalidCounter

\* UpdateCounts has refused a negative incorrect after taking a valid correct
C19_Witness ==
    /\ last.op = "Performance.UpdateCounts"
    /\ last.err = ErrInvalidCounter
    /\ Deref(last.pre).Correct = 0
    /\ Deref(performance).Correct = 2

\* the accuracy of a Performance reset to no answers has been asked for
C19_WitnessAccuracy ==
    /\ last.op = "Performance.GetAccuracy"
    /\ Deref(performance).Correct + Deref(performance).Incorrect = 0
    /\ Deref(performance).CalculatedAt > 1

-----------------------------------------------------------------------------
(* Removal of the correct option, checked under SpecShared *)

\* C20: RemoveOption on a valid Question with more than 2 options, given the
\* ID of the option that is correct, fails with ErrInvalidCorrectOptions and
\* leaves Options unchanged.
C20_CorrectOptionCannotBeRemoved ==
    (/\ last.op = "RemoveOption"
     /\ OptionsInvariant(Before.Options, Before.Difficulty)
     /\ Len(Before.Options) > 2
     /\ \E i \in DOMAIN Before.Options :
           Before.Options[i].IsCorrect /\ Before.Options[i].ID = last.arg)
        => /\ last.err = ErrInvalidCorrectOptions
           /\ After.Options = Before.Options

-----------------------------------------------------------------------------
(* AddOption below the limit, checked under Spec *)

\* C21: AddOption on a valid Question with fewer options than its Difficulty
\* allows: an option that is not correct is appended as the last element and
\* the call succeeds; an option that is correct makes the call fail with
\* ErrInvalidCorrectOptions and Options is unchanged.
C21_AddOptionBelowLimit ==
    (/\ last.op = "AddOption"
     /\ OptionsInvariant(Before.Options, Before.Difficulty)
     /\ Len(Before.Options) < Before.Difficulty)
        => IF last.arg.IsCorrect
           THEN /\ last.err = ErrInvalidCorrectOptions
                /\ After.Options = Before.Options
           ELSE /\ last.err = NoError
                /\ Len(After.Options) = Len(Before.Options) + 1
                /\ After.Options[Len(After.Options)] = last.arg
                /\ \A i \in DOMAIN Before.Options :
                      After.Options[i] = Before.Options[i]

\* a second correct option has been refused by a Question with room for it
C21_Witness ==
    /\ last.op = "AddOption"
    /\ OptionsInvariant(Before.Options, Before.Difficulty)
    /\ Len(Before.Options) < Before.Difficulty
    /\ last.arg.IsCorrect
    /\ last.err = ErrInvalidCorrectOptions

\* an option that is not correct has been appended
C21_WitnessAppended ==
    /\ last.op = "AddOption"
    /\ OptionsInvariant(Before.Options, Before.Difficulty)
    /\ ~last.arg.IsCorrect
    /\ last.err = NoError
    /\ Len(After.Options) = 3

-----------------------------------------------------------------------------
(* Properties of validateOptions, checked under SpecValidateOptions *)

\* the number of options of the list that are marked correct
CorrectOptions(options) ==
    Cardinality({i \in DOMAIN options : options[i].IsCorrect})

\* C22: validateOptions checks the count before the correctness: it returns
\* ErrQuantityOptions whenever len(options) < 2 or len(options) >
\* int(difficulty), however many options are correct; ErrInvalidCorrectOptions
\* only when the count is in range and the number of correct options is not
\* 1; and nil exactly when both rules hold.
C22_CountBeforeCorrectness ==
    last.op = "validateOptions" =>
        LET n == Len(last.arg.options)
            inRange == 2 <= n /\ n <= last.arg.difficulty
            oneCorrect == CorrectOptions(last.arg.options) = 1
        IN  /\ ~inRange => frame.ret = ErrQuantityOptions
            /\ frame.ret = ErrInvalidCorrectOptions <=> (inRange /\ ~oneCorrect)
            /\ frame.ret = NoError <=> (inRange /\ oneCorrect)

\* validateOptions has been given a list that breaks both rules
C22_Witness ==
    /\ last.op = "validateOptions"
    /\ Len(last.arg.options) > last.arg.difficulty
    /\ CorrectOptions(last.arg.options) = 2
    /\ frame.ret = ErrQuantityOptions

-----------------------------------------------------------------------------
(* Frame conditions of the Question mutators, checked under Spec *)

\* C23: UpdateContent never changes Difficulty or Options; UpdateDifficulty
\* never changes Options or Content; a successful SetCorrectOption never
\* changes Difficulty, Content, the number of options, their order, or any
\* option's ID, QuestionID or Content; no mutator ever changes the ID,
\* SubjectID or CreatedAt of the Question.
C23_FrameConditions ==
    /\ last.op = "UpdateContent" =>
          /\ After.Difficulty = Before.Difficulty
          /\ After.Options = Before.Options
    /\ last.op = "UpdateDifficulty" =>
          /\ After.Options = Before.Options
          /\ After.Content = Before.Content
    /\ (last.op = "SetCorrectOption" /\ last.err = NoError) =>
          /\ After.Difficulty = Before.Difficulty
          /\ After.Content = Before.Content
          /\ Len(After.Options) = Len(Before.Options)
          /\ \A i \in DOMAIN Before.Options :
                /\ After.Options[i].ID = Before.Options[i].ID
                /\ After.Options[i].QuestionID = Before.Options[i].QuestionID
                /\ After.Options[i].Content = Before.Options[i].Content
    /\ last.op \in Mutators =>
          /\ After.ID = Before.ID
          /\ After.SubjectID = Before.SubjectID
          /\ After.CreatedAt = Before.CreatedAt

\* a successful SetCorrectOption has moved the mark to another option
C23_Witness ==
    /\ last.op = "SetCorrectOption"
    /\ last.err = NoError
    /\ \E i \in DOMAIN Before.Options :
          Before.Options[i].IsCorrect /\ ~After.Options[i].IsCorrect

\* UpdateDifficulty has refused a level below the number of options
C23_WitnessRefused ==
    /\ last.op = "UpdateDifficulty"
    /\ last.err = ErrChangeDifficulty
    /\ Len(After.Options) = 3

-----------------------------------------------------------------------------
(* Properties of the User's activation state, checked under SpecUser *)

UserUpdates ==
    {"User.UpdateName", "User.UpdateEmail", "User.UpdateRole",
     "User.UpdateDifficulty"}

\* C24: a User returned by NewUser is active; after any sequence of Activate
\* and Deactivate calls exactly one of IsActive() and IsInactive() is true
\* and the state is the effect of the last of them; Activate and Deactivate
\* are each idempotent on the activation state; no Update* mutator,
\* successful or failing, changes the activation state.
C24_ActivationState ==
    /\ (last.op = "NewUser" /\ user # NilPtr) => Deref(user).Status = "ACTIVE"
    /\ user # NilPtr =>
          /\ IsActive(Deref(user)) # IsInactive(Deref(user))
          /\ User_Activate(User_Activate(Deref(user), now), now + 1).Status
                = User_Activate(Deref(user), now).Status
          /\ User_Deactivate(User_Deactivate(Deref(user), now), now + 1).Status
                = User_Deactivate(Deref(user), now).Status
    /\ last.op = "User.Activate" =>
          Deref(user).Status = "ACTIVE"
    /\ last.op = "User.Deactivate" =>
          Deref(user).Status = "INACTIVE"
    /\ last.op \in UserUpdates =>
          Deref(user).Status = Deref(last.pre).Status
    /\ last.op = "User.IsActive" =>
          frame.ret = (Deref(user).Status = "ACTIVE")
    /\ last.op = "User.IsInactive" =>
          frame.ret = (Deref(user).Status = "INACTIVE")

\* a failing Update* has been called on a deactivated User
C24_Witness ==
    /\ last.op = "User.UpdateEmail"
    /\ last.err # NoError
    /\ Deref(user).Status = "INACTIVE"

\* Activate has been called on a User that was already active
C24_WitnessTwice ==
    /\ last.op = "User.Activate"
    /\ Deref(last.pre).Status = "ACTIVE"
    /\ Deref(user).UpdatedAt > Deref(last.pre).UpdatedAt

====
